---- MODULE Spec2Model ----
(***************************************************************************)
(* Model of src/components/Pagination/Pagination.jsx.                      *)
(*                                                                         *)
(* The component is a function of its props (location, currentPage,       *)
(* totalPages) and of the media query result isWide.  One render computes *)
(* the page list, applies the location guard and builds one link per page *)
(* button plus the previous/next arrow links.  The focus/hover hook state *)
(* only selects styles and is left out.                                    *)
(*                                                                         *)
(* Strings are sequences of tokens: the search string "?q=a&page=3" is    *)
(* <<"?", "q", "=", "a", "&", "page", "=", "3">>, so that parsing,         *)
(* URLSearchParams.set/delete, toString and the template literal of       *)
(* getPageLink are computed and a '?' in a link is a token of the link.   *)
(***************************************************************************)
EXTENDS Integers, Sequences, FiniteSets

\* Largest totalPages (and currentPage) a render is given.
MaxTotalPages == 12

\* The only entry of the page list that is not a page number.  JS uses the
\* string '...'; page numbers are >= 1, so -1 stands for it here.
PLACEHOLDER == -1

Max(a, b) == IF a > b THEN a ELSE b

Min(a, b) == IF a < b THEN a ELSE b

\* range(a, b) of utils/common: the inclusive ascending integers a..b.
Range(a, b) == [i \in 1..(b - a + 1) |-> a + i - 1]

(***************************************************************************)
(* The page list (the useMemo callback).                                   *)
(***************************************************************************)
PageNeighbors(wide) == IF wide THEN 2 ELSE 1

TotalNumbers(pageNeighbors) == pageNeighbors * 2 + 3

TotalBlocks(pageNeighbors) == TotalNumbers(pageNeighbors) + 2

StartPage(cur, pageNeighbors) == Max(2, cur - pageNeighbors)

EndPage(cur, total, pageNeighbors) == Min(total - 1, cur + pageNeighbors)

HasLeftSpill(startPage) == startPage > 2

HasRightSpill_Off(total, endPage) == total - endPage > 2
HasRightSpill(total, endPage) == total - endPage > 1

SpillOffset_NoTerminal(totalNumbers, len) == totalNumbers - len
SpillOffset(totalNumbers, len) == totalNumbers - (len + 1)

WithTerminals_Inner(inner, total) == <<2>> \o inner \o <<total - 1>>
WithTerminals(inner, total) == <<1>> \o inner \o <<total>>

Pages(cur, total, pageNeighbors) ==
  LET totalNumbers == TotalNumbers(pageNeighbors)
      totalBlocks  == TotalBlocks(pageNeighbors)
  IN IF total > totalBlocks
     THEN LET startPage     == StartPage(cur, pageNeighbors)
              endPage       == EndPage(cur, total, pageNeighbors)
              pages         == Range(startPage, endPage)
              hasLeftSpill  == HasLeftSpill(startPage)
              hasRightSpill == HasRightSpill(total, endPage)
              spillOffset   == SpillOffset(totalNumbers, Len(pages))
              inner ==
                IF hasLeftSpill /\ ~hasRightSpill
                THEN <<PLACEHOLDER>>
                       \o Range(startPage - spillOffset, startPage - 1)
                       \o pages
                ELSE IF ~hasLeftSpill /\ hasRightSpill
                THEN pages
                       \o Range(endPage + 1, endPage + spillOffset)
                       \o <<PLACEHOLDER>>
                ELSE IF hasLeftSpill /\ hasRightSpill
                THEN <<PLACEHOLDER>> \o pages \o <<PLACEHOLDER>>
                ELSE pages
          IN WithTerminals(inner, total)
     ELSE Range(1, total)

(***************************************************************************)
(* Strings, URLSearchParams and getPageLink.                               *)
(***************************************************************************)
Digit(d) == <<"0", "1", "2", "3", "4", "5", "6", "7", "8", "9">>[d + 1]

\* String(page) for a non-negative integer, as a sequence of digit tokens.
RECURSIVE NumStr(_)
NumStr(n) == IF n < 10 THEN <<Digit(n)>>
             ELSE NumStr(n \div 10) \o <<Digit(n % 10)>>

Contains(s, tok) == \E i \in 1..Len(s) : s[i] = tok

IndexOf(s, tok) == CHOOSE i \in 1..Len(s) :
                     s[i] = tok /\ \A j \in 1..(i - 1) : s[j] # tok

\* s.split(sep)
RECURSIVE Split(_, _)
Split(s, sep) ==
  IF ~Contains(s, sep) THEN <<s>>
  ELSE LET i == IndexOf(s, sep)
       IN <<SubSeq(s, 1, i - 1)>> \o Split(SubSeq(s, i + 1, Len(s)), sep)

\* One "name=value" piece as a (name, value) pair.
ParsePair(piece) ==
  IF Contains(piece, "=")
  THEN LET i == IndexOf(piece, "=")
       IN [name  |-> SubSeq(piece, 1, i - 1),
           value |-> SubSeq(piece, i + 1, Len(piece))]
  ELSE [name |-> piece, value |-> <<>>]

\* new URLSearchParams(searchString): a leading '?' is dropped, the rest is
\* split on '&', empty pieces are skipped.
ParseSearch(searchString) ==
  LET body   == IF Len(searchString) > 0 /\ searchString[1] = "?"
                THEN Tail(searchString) ELSE searchString
      pieces == SelectSeq(Split(body, "&"), LAMBDA p : p # <<>>)
  IN [i \in 1..Len(pieces) |-> ParsePair(pieces[i])]

\* searchParams.delete(name): every pair of that name goes.
ParamsDelete(params, name) ==
  SelectSeq(params, LAMBDA p : p.name # name)

\* searchParams.set(name, value): the first pair of that name gets the value
\* and the others go; without such a pair, one is appended.
ParamsSet(params, name, value) ==
  IF \E i \in 1..Len(params) : params[i].name = name
  THEN LET first == CHOOSE i \in 1..Len(params) :
                      /\ params[i].name = name
                      /\ \A j \in 1..(i - 1) : params[j].name # name
           head  == [i \in 1..first |->
                       IF i = first THEN [name |-> name, value |-> value]
                       ELSE params[i]]
       IN head \o ParamsDelete(SubSeq(params, first + 1, Len(params)), name)
  ELSE Append(params, [name |-> name, value |-> value])

\* searchParams.toString(): the pairs as name=value joined by '&'.
RECURSIVE ParamsToString(_)
ParamsToString(params) ==
  IF params = <<>> THEN <<>>
  ELSE LET p    == Head(params)
           rest == ParamsToString(Tail(params))
       IN p.name \o <<"=">> \o p.value
            \o (IF rest = <<>> THEN <<>> ELSE <<"&">> \o rest)

getUpdatedSearchParams(searchString, page) ==
  LET searchParams == ParseSearch(searchString)
  IN IF page = 1
     THEN ParamsToString(ParamsDelete(searchParams, <<"page">>))
     ELSE ParamsToString(ParamsSet(searchParams, <<"page">>, NumStr(page)))

getPageLink(loc, page) ==
  LET params == getUpdatedSearchParams(loc.search, page)
  IN IF params # <<>>
     THEN loc.pathname \o <<"?">> \o params \o <<"#", "results">>
     ELSE loc.pathname

(***************************************************************************)
(* Props.                                                                  *)
(***************************************************************************)
Pathnames == { <<"/", "news">> }

Searches ==
  { <<>>,
    <<"?", "page", "=", "2">>,
    <<"?", "q", "=", "a">>,
    <<"?", "q", "=", "a", "&", "page", "=", "3">> }

\* A location prop: an object with pathname and search, or null/undefined.
Locations ==
  { [kind |-> "object", pathname |-> p, search |-> s] :
      p \in Pathnames, s \in Searches }
  \cup { [kind |-> k, pathname |-> <<>>, search |-> <<>>] :
           k \in {"null", "undefined"} }

LocationAbsent_NullOnly(loc) == loc.kind = "null"
\* !location
LocationAbsent(loc) == loc.kind \in {"null", "undefined"}

(***************************************************************************)
(* What one render returns.                                                *)
(***************************************************************************)
NoLink == [page |-> 0, to |-> <<>>]

NullOutput ==
  [rendered |-> FALSE, prev |-> NoLink, next |-> NoLink,
   prevHidden |-> FALSE, nextHidden |-> FALSE, items |-> <<>>]

\* One entry of pages.map: a placeholder span or a Button linking to the page.
Item(loc, cur, page) ==
  IF page = PLACEHOLDER
  THEN [page |-> PLACEHOLDER, button |-> FALSE, to |-> <<>>, active |-> FALSE]
  ELSE [page |-> page, button |-> TRUE, to |-> getPageLink(loc, page),
        active |-> (cur = page)]

RenderOutput(loc, cur, total, pgs) ==
  IF LocationAbsent(loc) THEN NullOutput
  ELSE [rendered   |-> TRUE,
        prev       |-> [page |-> cur - 1, to |-> getPageLink(loc, cur - 1)],
        next       |-> [page |-> cur + 1, to |-> getPageLink(loc, cur + 1)],
        prevHidden |-> (cur = 1),
        nextHidden |-> (cur = total),
        items      |-> [i \in 1..Len(pgs) |-> Item(loc, cur, pgs[i])]]

(***************************************************************************)
(* State.                                                                  *)
(***************************************************************************)
VARIABLES location, currentPage, totalPages, isWide, pages, output

vars == <<location, currentPage, totalPages, isWide, pages, output>>

\* One call of Pagination(props): the memo, the guard and the returned tree.
Rendered(loc, cur, total, wide) ==
  /\ location' = loc
  /\ currentPage' = cur
  /\ totalPages' = total
  /\ isWide' = wide
  /\ pages' = Pages(cur, total, PageNeighbors(wide))
  /\ output' = RenderOutput(loc, cur, total, pages')

\* First render: defaultProps (totalPages 1, currentPage 1).
Init ==
  /\ location \in Locations
  /\ currentPage = 1
  /\ totalPages = 1
  /\ isWide \in BOOLEAN
  /\ pages = Pages(currentPage, totalPages, PageNeighbors(isWide))
  /\ output = RenderOutput(location, currentPage, totalPages, pages)

\* A re-render with new props or a changed media query.
Render ==
  \E loc \in Locations, total \in 1..MaxTotalPages, wide \in BOOLEAN :
    \E cur \in 1..total :
      Rendered(loc, cur, total, wide)

Next == Render

Spec == Init /\ [][Next]_vars

(***************************************************************************)
(* Properties.                                                             *)
(***************************************************************************)
pageNeighbors == PageNeighbors(isWide)

IsNumber(e) == e # PLACEHOLDER

\* Pages are hidden on the left / on the right of the window around
\* currentPage.
HiddenLeft == currentPage - pageNeighbors > 2

HiddenRight == currentPage + pageNeighbors < totalPages - 1

Windowed == totalPages > 2 * pageNeighbors + 5

\* C1: the page list (numbers and placeholders) never has more entries than
\* totalBlocks = 2 * pageNeighbors + 5.
C1_AtMostTotalBlocks == Len(pages) <= 2 * pageNeighbors + 5

\* A windowed list with a placeholder that fills all the blocks.
C1_Witness ==
  /\ Windowed
  /\ Contains(pages, PLACEHOLDER)
  /\ Len(pages) = 2 * pageNeighbors + 5

\* C2: with the location prop absent (null or undefined) the render returns
\* null and builds no page link, whatever currentPage and totalPages are.
C2_NothingWithoutLocation ==
  location.kind \in {"null", "undefined"} =>
    /\ ~output.rendered
    /\ output.items = <<>>
    /\ output.prev.to = <<>>
    /\ output.next.to = <<>>

\* An undefined location on a page in the middle of several.
C2_Witness ==
  /\ location.kind = "undefined"
  /\ totalPages > 2
  /\ currentPage > 1
  /\ currentPage < totalPages
  /\ Len(pages) = totalPages
  /\ ~output.rendered

\* C3: the first entry of the page list is the number 1 and the last entry
\* is the number totalPages; neither is a placeholder.
C3_TerminalPagesVisible ==
  /\ Len(pages) >= 1
  /\ pages[1] = 1
  /\ pages[Len(pages)] = totalPages
  /\ IsNumber(pages[1])
  /\ IsNumber(pages[Len(pages)])

\* A windowed list with placeholders next to both terminal pages.
C3_Witness ==
  /\ Windowed
  /\ pages[2] = PLACEHOLDER
  /\ pages[Len(pages) - 1] = PLACEHOLDER
  /\ pages[1] = 1
  /\ pages[Len(pages)] = totalPages

\* Every call of getPageLink one render makes: the two arrows and the buttons.
BuiltLinks ==
  {output.prev, output.next}
    \cup { [page |-> output.items[i].page, to |-> output.items[i].to] :
             i \in { j \in 1..Len(output.items) : output.items[j].button } }

\* C4: a link returned by getPageLink(page) has a '?' query part if and only
\* if page > 1, and for page = 1 it is the bare pathname, whatever
\* location.search carries.
C4_QueryOnlyAbovePageOne ==
  output.rendered =>
    \A l \in BuiltLinks :
      /\ Contains(l.to, "?") <=> l.page > 1
      /\ l.page = 1 => l.to = location.pathname

\* C5: with pages hidden on the left only the list is 1, placeholder,
\* currentPage - pageNeighbors .. totalPages; with pages hidden on the right
\* only it is 1 .. currentPage + pageNeighbors, placeholder, totalPages.
C5_OneSidedWindowIsNeighboursOnly ==
  /\ (Windowed /\ HiddenLeft /\ ~HiddenRight) =>
       pages = <<1, PLACEHOLDER>>
                 \o Range(currentPage - pageNeighbors, totalPages)
  /\ (Windowed /\ ~HiddenLeft /\ HiddenRight) =>
       pages = Range(1, currentPage + pageNeighbors)
                 \o <<PLACEHOLDER, totalPages>>

\* C6: with pages hidden on both sides the list is exactly 1, placeholder,
\* currentPage - pageNeighbors .. currentPage + pageNeighbors, placeholder,
\* totalPages.
C6_TwoSidedWindow ==
  (Windowed /\ HiddenLeft /\ HiddenRight) =>
    pages = <<1, PLACEHOLDER>>
              \o Range(currentPage - pageNeighbors,
                       currentPage + pageNeighbors)
              \o <<PLACEHOLDER, totalPages>>

\* 10 pages, pageNeighbors 2, currentPage 6: 1 ... 4 5 6 7 8 ... 10.
C6_Witness ==
  /\ totalPages = 10
  /\ isWide
  /\ currentPage = 6
  /\ pages = <<1, PLACEHOLDER, 4, 5, 6, 7, 8, PLACEHOLDER, 10>>

====
